---- MODULE Spec2Model ----
(***************************************************************************)
(* Offline-first budget store and sync orchestrator of my-money-mat.       *)
(*                                                                         *)
(*   budgetDb (src/unnamed/part_000)         the Lovefield table of rows   *)
(*   conflictResolution (src/src/lib/offlineDb.ts:89-278)  pure functions  *)
(*   useOnlineSync (src/src/hooks/useOnlineSync.ts)        the sync pass   *)
(*   useBudgetOffline (src/src/lib/offlineDb.ts:321-504)  list and counter *)
(*   MutationQueue, OfflineSyncProvider (offlineDb.ts:48-87,               *)
(*     src/unnamed/part_006)                  the outbox and its replay    *)
(*                                                                         *)
(* Every await of a sync pass is a point where other handlers run, so a    *)
(* pass is a sequence of actions, the select and the write of              *)
(* markItemsAsSynced among them.  A user's addItem, editItem or removeItem *)
(* and resolveConflicts are taken in one step each: the schedules in which *)
(* nothing runs between their own awaits.  In Spec every row is given the  *)
(* same category, description, type and date; SpecMerge draws the five     *)
(* payload fields from sets of two values each.                            *)
(***************************************************************************)
EXTENDS Integers, Sequences, FiniteSets, TLC

\* ----- bounds of the model ------------------------------------------------
MaxItems == 2
MaxAmount == 1
MaxTicks == 1
TickMs == 1001
MaxPasses == 2
MaxTimers == 1
MaxLoad == 3

\* ----- program constants --------------------------------------------------
TIME_TOLERANCE == 1000

Ids == 1..MaxItems
Amounts == 1..MaxAmount
PureAmounts == 0..MaxAmount
Passes == 1..MaxPasses

VARIABLES
  store,            \* BudgetItems table: id -> row, or NoRow
  nextId,           \* ids handed out so far (generateId never repeats)
  now,              \* Date.now(), in ms
  server,           \* the remote service's copy: id -> ServerBudgetItem, or NoRow
  syncInProgress,   \* syncInProgress.current
  isSyncing,        \* useState isSyncing
  conflicts,        \* useState conflicts
  timers,           \* pending setTimeout callbacks of resolveConflicts
  pc,               \* per triggerSync invocation: where it is suspended
  unsyncedItems,    \* per invocation: the rows getUnsyncedItems returned
  syncedIds,        \* per invocation: result.syncedIds
  toMark,           \* per invocation: ids markItemsAsSynced has not visited yet
  item,             \* per invocation: the row markItemsAsSynced just selected
  quiet,            \* per invocation: no other handler wrote the store since it started
  syncError,        \* useState syncError
  px,               \* argument of the store function under test (SpecMark)
  py,               \* the stores its successive calls returned (SpecMark)
  stateItems,       \* useBudgetOffline state.items
  unsyncedCount,    \* useBudgetOffline state.unsyncedCount
  mutationQueue,    \* MutationQueue table: the rows of the outbox
  queued,           \* queueMutation calls made so far
  providerIsSyncing, \* OfflineSyncProvider: useState isSyncing
  closureIsSyncing, \* the isSyncing that the current syncNow closure captured
  replay,           \* per syncNow invocation: where its replay loop is
  calls             \* syncNow calls made so far

vars == <<store, nextId, now, server, syncInProgress, isSyncing,
          syncError, conflicts, timers, pc, unsyncedItems, syncedIds, toMark,
          item, quiet, px, py, stateItems, unsyncedCount, mutationQueue, queued,
          providerIsSyncing, closureIsSyncing, replay, calls>>

storeVars == <<store, nextId>>
hookVars == <<syncInProgress, isSyncing, syncError, conflicts, timers>>
passVars == <<pc, unsyncedItems, syncedIds, toMark, item>>
pureVars == <<px, py>>
viewVars == <<stateItems, unsyncedCount>>
outboxVars == <<mutationQueue, queued, providerIsSyncing, closureIsSyncing, replay, calls>>
sideVars == <<pureVars, viewVars, outboxVars>>

NoRow == [absent |-> TRUE]

\* ----- budgetDb -----------------------------------------------------------

\* { ...existing, ...updates }
Spread(existing, updates) ==
  [f \in DOMAIN existing |-> IF f \in DOMAIN updates THEN updates[f] ELSE existing[f]]

\* fields is the form's input; t1 and t2 are the two clock reads, in that order.
addBudgetItem(st, id, fields, t1, t2) ==
  [st EXCEPT ![id] = [category |-> fields.category, description |-> fields.description,
                      amount |-> fields.amount, type |-> fields.type, date |-> fields.date,
                      id |-> id, synced |-> FALSE,
                      updatedAt |-> t1, createdAt |-> t2, deleted |-> FALSE]]

updateBudgetItemStaleFlag(st, id, updates, t) ==
  IF st[id] = NoRow THEN st
  ELSE [st EXCEPT ![id] =
          Spread([st[id] EXCEPT !.id = id, !.synced = FALSE, !.updatedAt = t], updates)]

updateBudgetItem(st, id, updates, t) ==
  IF st[id] = NoRow THEN st
  ELSE [st EXCEPT ![id] =
          [Spread(st[id], updates) EXCEPT !.id = id, !.synced = FALSE, !.updatedAt = t]]

deleteBudgetItem(st, id, t) ==
  updateBudgetItem(st, id, [deleted |-> TRUE, synced |-> FALSE], t)

hardDeleteBudgetItem(st, id) == [st EXCEPT ![id] = NoRow]

getUnsyncedItems(st) == {st[i] : i \in {j \in Ids : st[j] # NoRow /\ ~st[j].synced}}

\* One iteration of markItemsAsSynced's loop after its select returned `row`.
MarkOneKeepsDeleted(st, row) ==
  IF row = NoRow THEN st
  ELSE [st EXCEPT ![row.id] = [row EXCEPT !.synced = TRUE]]

MarkOneToggles(st, row) ==
  IF row = NoRow THEN st
  ELSE IF row.deleted \/ row.synced THEN hardDeleteBudgetItem(st, row.id)
  ELSE [st EXCEPT ![row.id] = [row EXCEPT !.synced = TRUE]]

MarkOne(st, row) ==
  IF row = NoRow THEN st
  ELSE IF row.deleted THEN hardDeleteBudgetItem(st, row.id)
  ELSE [st EXCEPT ![row.id] = [row EXCEPT !.synced = TRUE]]

RECURSIVE markItemsAsSynced(_, _)
markItemsAsSynced(st, ids) ==
  IF ids = <<>> THEN st
  ELSE markItemsAsSynced(MarkOne(st, st[Head(ids)]), Tail(ids))

\* ----- conflictResolution -------------------------------------------------

\* Date.prototype.toISOString and new Date(iso): the wire form of a timestamp.
toISOString(t) == [iso |-> t]
DateParse(w) == w.iso

NoConflict == [conflictType |-> "none"]

detectConflictServerDeleteTies(localItem, serverItem) ==
  LET localUpdated == localItem.updatedAt
      serverUpdated == DateParse(serverItem.updatedAt)
      diff == IF localUpdated >= serverUpdated THEN localUpdated - serverUpdated
              ELSE serverUpdated - localUpdated
      c(type) == [localItem |-> localItem, serverItem |-> serverItem, conflictType |-> type]
  IN  IF localItem.deleted /\ ~serverItem.deleted
      THEN IF serverUpdated > localUpdated THEN c("delete_local") ELSE NoConflict
      ELSE IF ~localItem.deleted /\ serverItem.deleted
      THEN IF localUpdated >= serverUpdated THEN c("delete_server") ELSE NoConflict
      ELSE IF diff > TIME_TOLERANCE THEN c("both_modified") ELSE NoConflict

detectConflictAtTolerance(localItem, serverItem) ==
  LET localUpdated == localItem.updatedAt
      serverUpdated == DateParse(serverItem.updatedAt)
      diff == IF localUpdated >= serverUpdated THEN localUpdated - serverUpdated
              ELSE serverUpdated - localUpdated
      c(type) == [localItem |-> localItem, serverItem |-> serverItem, conflictType |-> type]
  IN  IF localItem.deleted /\ ~serverItem.deleted
      THEN IF serverUpdated > localUpdated THEN c("delete_local") ELSE NoConflict
      ELSE IF ~localItem.deleted /\ serverItem.deleted
      THEN IF localUpdated > serverUpdated THEN c("delete_server") ELSE NoConflict
      ELSE IF diff >= TIME_TOLERANCE THEN c("both_modified") ELSE NoConflict

detectConflictNewerDeleteConflicts(localItem, serverItem) ==
  LET localUpdated == localItem.updatedAt
      serverUpdated == DateParse(serverItem.updatedAt)
      diff == IF localUpdated >= serverUpdated THEN localUpdated - serverUpdated
              ELSE serverUpdated - localUpdated
      c(type) == [localItem |-> localItem, serverItem |-> serverItem, conflictType |-> type]
  IN  IF localItem.deleted /\ ~serverItem.deleted
      THEN IF localUpdated > serverUpdated THEN c("delete_local") ELSE NoConflict
      ELSE IF ~localItem.deleted /\ serverItem.deleted
      THEN IF localUpdated > serverUpdated THEN c("delete_server") ELSE NoConflict
      ELSE IF diff > TIME_TOLERANCE THEN c("both_modified") ELSE NoConflict

detectConflict(localItem, serverItem) ==
  LET localUpdated == localItem.updatedAt
      serverUpdated == DateParse(serverItem.updatedAt)
      diff == IF localUpdated >= serverUpdated THEN localUpdated - serverUpdated
              ELSE serverUpdated - localUpdated
      c(type) == [localItem |-> localItem, serverItem |-> serverItem, conflictType |-> type]
  IN  IF localItem.deleted /\ ~serverItem.deleted
      THEN IF serverUpdated > localUpdated THEN c("delete_local") ELSE NoConflict
      ELSE IF ~localItem.deleted /\ serverItem.deleted
      THEN IF localUpdated > serverUpdated THEN c("delete_server") ELSE NoConflict
      ELSE IF diff > TIME_TOLERANCE THEN c("both_modified") ELSE NoConflict

autoResolveConflictKeepsLocal(conflict) ==
  [localItem |-> conflict.localItem, serverItem |-> conflict.serverItem,
   conflictType |-> conflict.conflictType, resolution |-> "keep_local"]

autoResolveConflictStrict(conflict) ==
  LET localUpdated == conflict.localItem.updatedAt
      serverUpdated == DateParse(conflict.serverItem.updatedAt)
  IN  [localItem |-> conflict.localItem, serverItem |-> conflict.serverItem,
       conflictType |-> conflict.conflictType,
       resolution |-> IF localUpdated > serverUpdated THEN "keep_local" ELSE "keep_server"]

autoResolveConflict(conflict) ==
  LET localUpdated == conflict.localItem.updatedAt
      serverUpdated == DateParse(conflict.serverItem.updatedAt)
  IN  [localItem |-> conflict.localItem, serverItem |-> conflict.serverItem,
       conflictType |-> conflict.conflictType,
       resolution |-> IF localUpdated >= serverUpdated THEN "keep_local" ELSE "keep_server"]

mergeItemsPerField(localItem, serverItem, t) ==
  LET localUpdated == localItem.updatedAt
      serverUpdated == DateParse(serverItem.updatedAt)
  IN  [id |-> localItem.id,
       category |-> IF localUpdated >= serverUpdated THEN localItem.category
                    ELSE serverItem.category,
       description |-> IF localUpdated >= serverUpdated THEN localItem.description
                       ELSE serverItem.description,
       amount |-> localItem.amount,
       type |-> IF localUpdated >= serverUpdated THEN localItem.type ELSE serverItem.type,
       date |-> IF localUpdated >= serverUpdated THEN localItem.date
                ELSE DateParse(serverItem.date),
       synced |-> FALSE,
       updatedAt |-> t,
       createdAt |-> localItem.createdAt,
       deleted |-> FALSE]

mergeItems(localItem, serverItem, t) ==
  LET localUpdated == localItem.updatedAt
      serverUpdated == DateParse(serverItem.updatedAt)
  IN  [id |-> localItem.id,
       category |-> IF localUpdated >= serverUpdated THEN localItem.category
                    ELSE serverItem.category,
       description |-> IF localUpdated >= serverUpdated THEN localItem.description
                       ELSE serverItem.description,
       amount |-> IF localUpdated >= serverUpdated THEN localItem.amount ELSE serverItem.amount,
       type |-> IF localUpdated >= serverUpdated THEN localItem.type ELSE serverItem.type,
       date |-> IF localUpdated >= serverUpdated THEN localItem.date
                ELSE DateParse(serverItem.date),
       synced |-> FALSE,
       updatedAt |-> t,
       createdAt |-> localItem.createdAt,
       deleted |-> FALSE]

serverItemToLocalZeroAmount(serverItem) ==
  [id |-> serverItem.id, category |-> serverItem.category,
   description |-> serverItem.description, amount |-> 0,
   type |-> serverItem.type, date |-> DateParse(serverItem.date), synced |-> TRUE,
   updatedAt |-> DateParse(serverItem.updatedAt),
   createdAt |-> DateParse(serverItem.createdAt),
   deleted |-> serverItem.deleted]

serverItemToLocal(serverItem) ==
  [id |-> serverItem.id, category |-> serverItem.category,
   description |-> serverItem.description, amount |-> serverItem.amount,
   type |-> serverItem.type, date |-> DateParse(serverItem.date), synced |-> TRUE,
   updatedAt |-> DateParse(serverItem.updatedAt),
   createdAt |-> DateParse(serverItem.createdAt),
   deleted |-> serverItem.deleted]

\* resolved = [localItem, serverItem, conflictType, resolution, mergedItem];
\* mergedItem is NoRow when the caller left it undefined.
applyResolutionRemerges(resolved, t) ==
  CASE resolved.resolution = "keep_local" -> [resolved.localItem EXCEPT !.synced = FALSE]
    [] resolved.resolution = "keep_server" -> serverItemToLocal(resolved.serverItem)
    [] resolved.resolution = "merge" ->
         mergeItems(resolved.localItem, resolved.serverItem, t)
    [] OTHER -> resolved.localItem

applyResolution(resolved, t) ==
  CASE resolved.resolution = "keep_local" -> [resolved.localItem EXCEPT !.synced = FALSE]
    [] resolved.resolution = "keep_server" -> serverItemToLocal(resolved.serverItem)
    [] resolved.resolution = "merge" ->
         IF resolved.mergedItem # NoRow THEN resolved.mergedItem
         ELSE mergeItems(resolved.localItem, resolved.serverItem, t)
    [] OTHER -> resolved.localItem

\* ----- the remote service ------------------------------------------------

\* The payload triggerSync posts for one row (useOnlineSync.ts:151-161).
ToWire(row) ==
  [id |-> row.id, category |-> row.category, description |-> row.description,
   amount |-> row.amount, type |-> row.type, date |-> toISOString(row.date),
   deleted |-> row.deleted,
   updatedAt |-> toISOString(row.updatedAt), createdAt |-> toISOString(row.createdAt)]

fetchServerItemsIgnoresFailure(ids, ok) ==
  {server[i] : i \in {j \in ids : server[j] # NoRow}}

\* fetchServerItems: the map of the server's rows among ids; empty when the
\* request fails or the response is not OK.
fetchServerItems(ids, ok) ==
  IF ok THEN {server[i] : i \in {j \in ids : server[j] # NoRow}} ELSE {}

ServerGet(serverItems, id) ==
  IF \E s \in serverItems : s.id = id
  THEN CHOOSE s \in serverItems : s.id = id
  ELSE NoRow

\* ----- useOnlineSync: syncItemsToServer -----------------------------------

\* The conflicts the loop of syncItemsToServer collects.
SyncConflictsOnlyModified(items, serverItems) ==
  {c \in {detectConflict(i, ServerGet(serverItems, i.id)) :
            i \in {j \in items : ServerGet(serverItems, j.id) # NoRow}} :
     c.conflictType = "both_modified"}

SyncConflicts(items, serverItems) ==
  {detectConflict(i, ServerGet(serverItems, i.id)) :
     i \in {j \in items : ServerGet(serverItems, j.id) # NoRow}} \ {NoConflict}

\* The rows the loop puts in itemsToSync.
itemsToSyncKnownOnly(items, serverItems) ==
  {i \in items : /\ ServerGet(serverItems, i.id) # NoRow
                 /\ detectConflict(i, ServerGet(serverItems, i.id)) = NoConflict}

itemsToSync(items, serverItems) ==
  {i \in items : \/ ServerGet(serverItems, i.id) = NoRow
                 \/ detectConflict(i, ServerGet(serverItems, i.id)) = NoConflict}

IdsOf(items) == {i.id : i \in items}

NoError == "null"

\* ----- Init ---------------------------------------------------------------

\* useBudgetOffline before its first refreshItems.
InitView ==
  /\ stateItems = {}
  /\ unsyncedCount = 0

MaxRuns == 2
Runs == 1..MaxRuns
NoReplay == [pc |-> "idle", queue |-> <<>>, pos |-> 0, failed |-> {}, alone |-> TRUE]

\* OfflineSyncProvider after its first render, with an empty outbox.
InitOutbox ==
  /\ mutationQueue = {}
  /\ queued = 0
  /\ providerIsSyncing = FALSE
  /\ closureIsSyncing = FALSE
  /\ replay = [r \in Runs |-> NoReplay]
  /\ calls = 0

Init ==
  /\ store = [i \in Ids |-> NoRow]
  /\ nextId = 1
  /\ now = 0
  /\ server = [i \in Ids |-> NoRow]
  /\ syncInProgress = FALSE
  /\ isSyncing = FALSE
  /\ syncError = NoError
  /\ conflicts = {}
  /\ timers = 0
  /\ pc = [p \in Passes |-> "idle"]
  /\ unsyncedItems = [p \in Passes |-> {}]
  /\ syncedIds = [p \in Passes |-> {}]
  /\ toMark = [p \in Passes |-> {}]
  /\ item = [p \in Passes |-> NoRow]
  /\ quiet = [p \in Passes |-> TRUE]
  /\ InitView
  /\ InitOutbox
  /\ px = <<>>
  /\ py = <<>>

Running == {p \in Passes : pc[p] # "idle"}

\* What MaxLoad bounds: the rows ever created plus the passes in flight.
Load == (nextId - 1) + Cardinality(Running)

\* quiet after a handler other than pass `self` wrote the store (self = 0: no
\* pass did), and after a step of a pass that wrote nothing.  An invocation
\* that has returned counts as quiet.
Disturb(self) == [p \in Passes |-> pc'[p] = "idle" \/ (quiet[p] /\ p = self)]
Calm == [p \in Passes |-> pc'[p] = "idle" \/ quiet[p]]

\* ----- the environment: clock, connectivity, render, other devices --------

Tick ==
  /\ UNCHANGED sideVars
  /\ now < MaxTicks * TickMs
  /\ now' = now + TickMs
  /\ UNCHANGED <<storeVars, server, hookVars, passVars, quiet>>

\* Another session of the same account edits or deletes the server's copy.
ServerModify(id, amount) ==
  /\ UNCHANGED sideVars
  /\ server[id] # NoRow /\ ~server[id].deleted
  /\ server' = [server EXCEPT ![id] = [@ EXCEPT !.amount = amount,
                                                !.updatedAt = toISOString(now)]]
  /\ UNCHANGED <<storeVars, now, hookVars, passVars, quiet>>

ServerDelete(id) ==
  /\ UNCHANGED sideVars
  /\ server[id] # NoRow /\ ~server[id].deleted
  /\ server' = [server EXCEPT ![id] = [@ EXCEPT !.deleted = TRUE,
                                                !.updatedAt = toISOString(now)]]
  /\ UNCHANGED <<storeVars, now, hookVars, passVars, quiet>>

\* ----- local mutations (useBudgetOffline: addItem, editItem, removeItem) --

\* addBudgetItem reads the clock twice; it may advance in between.
\* What the form hands to addItem.
NewItem(amount) ==
  [category |-> "food", description |-> "note", amount |-> amount,
   type |-> "expense", date |-> 0]

AddItem(amount, advance) ==
  /\ UNCHANGED sideVars
  /\ nextId <= MaxItems /\ Load < MaxLoad
  /\ advance => now < MaxTicks * TickMs
  /\ now' = IF advance THEN now + TickMs ELSE now
  /\ store' = addBudgetItem(store, nextId, NewItem(amount), now, now')
  /\ nextId' = nextId + 1
  /\ UNCHANGED <<server, hookVars, passVars>>
  /\ quiet' = Disturb(0)

EditItem(id, amount) ==
  /\ UNCHANGED sideVars
  /\ store[id] # NoRow /\ ~store[id].deleted
  /\ store' = updateBudgetItem(store, id, [amount |-> amount], now)
  /\ UNCHANGED <<nextId, now, server, hookVars, passVars>>
  /\ quiet' = Disturb(0)

RemoveItem(id) ==
  /\ UNCHANGED sideVars
  /\ store[id] # NoRow /\ ~store[id].deleted
  /\ store' = deleteBudgetItem(store, id, now)
  /\ UNCHANGED <<nextId, now, server, hookVars, passVars>>
  /\ quiet' = Disturb(0)

\* ----- useOnlineSync: triggerSync -----------------------------------------

FinishKeepsGuard(p) ==
  /\ pc' = [pc EXCEPT ![p] = "idle"]
  /\ unsyncedItems' = [unsyncedItems EXCEPT ![p] = {}]
  /\ syncedIds' = [syncedIds EXCEPT ![p] = {}]
  /\ toMark' = [toMark EXCEPT ![p] = {}]
  /\ item' = [item EXCEPT ![p] = NoRow]
  /\ isSyncing' = FALSE
  /\ syncInProgress' = syncInProgress

\* The finally block of triggerSync and its return.
Finish(p) ==
  /\ pc' = [pc EXCEPT ![p] = "idle"]
  /\ unsyncedItems' = [unsyncedItems EXCEPT ![p] = {}]
  /\ syncedIds' = [syncedIds EXCEPT ![p] = {}]
  /\ toMark' = [toMark EXCEPT ![p] = {}]
  /\ item' = [item EXCEPT ![p] = NoRow]
  /\ isSyncing' = FALSE
  /\ syncInProgress' = FALSE

\* triggerSync up to its first await.  inProgress is syncInProgress.current
\* when it is called, capturedIsSyncing the isSyncing of its closure and
\* onLine what navigator.onLine answers.  A refused call returns its "Sync
\* already in progress" or "No internet connection" result and leaves every
\* state as it is.
triggerSync(inProgress, capturedIsSyncing, onLine) ==
  IF inProgress \/ capturedIsSyncing \/ ~onLine
  THEN /\ syncInProgress' = inProgress
       /\ UNCHANGED <<isSyncing, syncError, pc, unsyncedItems, syncedIds, toMark, item, quiet>>
  ELSE /\ Running # Passes /\ Load < MaxLoad
       /\ LET p == CHOOSE q \in Passes \ Running : \A r \in Passes \ Running : q <= r
          IN  pc' = [pc EXCEPT ![p] = "checking"]
       /\ syncInProgress' = TRUE
       /\ isSyncing' = TRUE
       /\ syncError' = NoError
       /\ UNCHANGED <<unsyncedItems, syncedIds, toMark, item, quiet>>

\* The online event, the periodic timer, the mount effect or the sync button.
\* The closure that is called was made by some earlier render, which saw
\* isSyncing true or false.
TriggerSync(capturedIsSyncing, onLine) ==
  /\ UNCHANGED sideVars
  /\ triggerSync(syncInProgress, capturedIsSyncing, onLine)
  /\ UNCHANGED <<storeVars, now, server, conflicts, timers>>

\* await getUnsyncedItems()
GetUnsynced(p) ==
  /\ UNCHANGED sideVars
  /\ pc[p] = "checking"
  /\ IF getUnsyncedItems(store) = {}
     THEN Finish(p)
     ELSE /\ pc' = [pc EXCEPT ![p] = "syncing"]
          /\ unsyncedItems' = [unsyncedItems EXCEPT ![p] = getUnsyncedItems(store)]
          /\ UNCHANGED <<syncedIds, toMark, item, isSyncing, syncInProgress>>
  /\ quiet' = Calm
  /\ UNCHANGED <<storeVars, now, server, syncError, conflicts, timers>>

\* syncItemsToServer from the answer of fetchServerItems to the POST, or to
\* its return when a conflict was found.
Detect(p, ok) ==
  /\ UNCHANGED sideVars
  /\ pc[p] = "syncing"
  /\ LET serverItems == fetchServerItems(IdsOf(unsyncedItems[p]), ok)
         found == SyncConflicts(unsyncedItems[p], serverItems)
     IN  IF found # {}
         THEN /\ conflicts' = found
              /\ Finish(p)
         ELSE /\ pc' = [pc EXCEPT ![p] = "pushing"]
              /\ unsyncedItems' = [unsyncedItems EXCEPT ![p] = itemsToSync(@, serverItems)]
              /\ UNCHANGED <<conflicts, syncedIds, toMark, item, isSyncing, syncInProgress>>
  /\ quiet' = Calm
  /\ UNCHANGED <<storeVars, now, server, syncError, timers>>

\* The POST fails: a network error or a response that is not OK.
PushFailedMarks(p) ==
  /\ UNCHANGED sideVars
  /\ pc[p] = "pushing"
  /\ store' = [i \in Ids |-> IF i \in IdsOf(unsyncedItems[p]) /\ store[i] # NoRow
                             THEN [store[i] EXCEPT !.synced = TRUE] ELSE store[i]]
  /\ syncError' = "Server returned 500"
  /\ Finish(p)
  /\ quiet' = Calm
  /\ UNCHANGED <<nextId, now, server, conflicts, timers>>

PushFailed(p) ==
  /\ UNCHANGED sideVars
  /\ pc[p] = "pushing"
  /\ syncError' = "Server returned 500"
  /\ Finish(p)
  /\ quiet' = Calm
  /\ UNCHANGED <<storeVars, now, server, conflicts, timers>>

\* The server accepts the rows of acked and answers with their ids.
PushAccepted(p, acked) ==
  /\ UNCHANGED sideVars
  /\ pc[p] = "pushing"
  /\ acked \subseteq IdsOf(unsyncedItems[p])
  /\ server' = [i \in Ids |-> IF i \in acked
                              THEN ToWire(CHOOSE r \in unsyncedItems[p] : r.id = i)
                              ELSE server[i]]
  /\ IF acked = {}
     THEN Finish(p)
     ELSE /\ pc' = [pc EXCEPT ![p] = "markRead"]
          /\ syncedIds' = [syncedIds EXCEPT ![p] = acked]
          /\ toMark' = [toMark EXCEPT ![p] = acked]
          /\ UNCHANGED <<unsyncedItems, item, isSyncing, syncInProgress>>
  /\ quiet' = Calm
  /\ UNCHANGED <<storeVars, now, syncError, conflicts, timers>>

\* markItemsAsSynced: the select of the next id.
MarkRead(p, id) ==
  /\ UNCHANGED sideVars
  /\ pc[p] = "markRead"
  /\ id \in toMark[p] /\ \A j \in toMark[p] : id <= j
  /\ IF store[id] = NoRow
     THEN IF toMark[p] = {id}
          THEN Finish(p)
          ELSE /\ toMark' = [toMark EXCEPT ![p] = @ \ {id}]
               /\ UNCHANGED <<pc, unsyncedItems, syncedIds, item, isSyncing, syncInProgress>>
     ELSE /\ pc' = [pc EXCEPT ![p] = "markWrite"]
          /\ item' = [item EXCEPT ![p] = store[id]]
          /\ UNCHANGED <<unsyncedItems, syncedIds, toMark, isSyncing, syncInProgress>>
  /\ quiet' = Calm
  /\ UNCHANGED <<storeVars, now, server, syncError, conflicts, timers>>

\* markItemsAsSynced: the delete or the insertOrReplace that follows the select.
MarkWrite(p) ==
  /\ UNCHANGED sideVars
  /\ pc[p] = "markWrite"
  /\ store' = MarkOne(store, item[p])
  /\ IF toMark[p] = {item[p].id}
     THEN Finish(p)
     ELSE /\ pc' = [pc EXCEPT ![p] = "markRead"]
          /\ toMark' = [toMark EXCEPT ![p] = @ \ {item[p].id}]
          /\ item' = [item EXCEPT ![p] = NoRow]
          /\ UNCHANGED <<unsyncedItems, syncedIds, isSyncing, syncInProgress>>
  /\ quiet' = Disturb(p)
  /\ UNCHANGED <<nextId, now, server, syncError, conflicts, timers>>

\* ----- useOnlineSync: resolveConflicts ------------------------------------

Resolutions == {"keep_local", "keep_server", "merge"}

\* ConflictResolutionDialog.handleResolveAll: one ResolvedConflict per conflict.
Resolved(c, resolution, t) ==
  [localItem |-> c.localItem, serverItem |-> c.serverItem, conflictType |-> c.conflictType,
   resolution |-> resolution,
   mergedItem |-> IF resolution = "merge" THEN mergeItems(c.localItem, c.serverItem, t)
                  ELSE NoRow]

ResolveOneDropsServerKept(st, resolved, t) ==
  LET finalItem == applyResolution(resolved, t)
  IN  IF resolved.resolution = "keep_server"
      THEN hardDeleteBudgetItem(st, resolved.localItem.id)
      ELSE updateBudgetItem(st, resolved.localItem.id,
                            [category |-> finalItem.category,
                             description |-> finalItem.description,
                             amount |-> finalItem.amount, type |-> finalItem.type,
                             date |-> finalItem.date, synced |-> finalItem.synced,
                             deleted |-> finalItem.deleted], t)

\* The body of resolveConflicts' loop.
ResolveOne(st, resolved, t) ==
  LET finalItem == applyResolution(resolved, t)
  IN  IF resolved.resolution = "keep_server" /\ resolved.serverItem.deleted
      THEN hardDeleteBudgetItem(st, resolved.localItem.id)
      ELSE updateBudgetItem(st, resolved.localItem.id,
                            [category |-> finalItem.category,
                             description |-> finalItem.description,
                             amount |-> finalItem.amount, type |-> finalItem.type,
                             date |-> finalItem.date, synced |-> finalItem.synced,
                             deleted |-> finalItem.deleted], t)

\* The loop over resolutions; they name distinct ids, so their order is immaterial.
ResolveAll(st, resolutions, t) ==
  [i \in Ids |-> IF \E r \in resolutions : r.localItem.id = i
                 THEN ResolveOne(st, CHOOSE r \in resolutions : r.localItem.id = i, t)[i]
                 ELSE st[i]]

ResolveConflicts(choice) ==
  /\ UNCHANGED sideVars
  /\ conflicts # {}
  /\ timers < MaxTimers
  /\ store' = ResolveAll(store, {Resolved(c, choice[c.localItem.id], now) : c \in conflicts}, now)
  /\ conflicts' = {}
  /\ timers' = timers + 1
  /\ UNCHANGED <<nextId, now, server, syncInProgress, isSyncing,
                 syncError, passVars>>
  /\ quiet' = Disturb(0)

\* The setTimeout callback of resolveConflicts.  resolveConflicts is memoised
\* on [updateUnsyncedCount, onSyncComplete], both stable, so the triggerSync it
\* calls is the one of the first render, whose isSyncing is false.
RetriggerTimer(onLine) ==
  /\ UNCHANGED sideVars
  /\ timers > 0
  /\ timers' = timers - 1
  /\ triggerSync(FALSE, FALSE, onLine)
  /\ UNCHANGED <<storeVars, now, server, conflicts>>

\* ----- specification ------------------------------------------------------

Next ==
  \/ Tick
  \/ \E id \in Ids, a \in Amounts : ServerModify(id, a)
  \/ \E id \in Ids : ServerDelete(id)
  \/ \E a \in Amounts, adv \in BOOLEAN : AddItem(a, adv)
  \/ \E id \in Ids, a \in Amounts : EditItem(id, a)
  \/ \E id \in Ids : RemoveItem(id)
  \/ \E captured \in BOOLEAN, onLine \in BOOLEAN : TriggerSync(captured, onLine)
  \/ \E p \in Passes : GetUnsynced(p)
  \/ \E p \in Passes, ok \in BOOLEAN : Detect(p, ok)
  \/ \E p \in Passes : PushFailed(p)
  \/ \E p \in Passes, acked \in SUBSET Ids : PushAccepted(p, acked)
  \/ \E p \in Passes, id \in Ids : MarkRead(p, id)
  \/ \E p \in Passes : MarkWrite(p)
  \/ \E choice \in [Ids -> Resolutions] : ResolveConflicts(choice)
  \/ \E onLine \in BOOLEAN : RetriggerTimer(onLine)

Spec == Init /\ [][Next]_vars

\* ----- the passes of one session, with storage failures (SpecLive) ---------

\* getUnsyncedItems or markItemsAsSynced throws: the catch of triggerSync
\* records the error and its finally block runs.
StorageError(p) ==
  /\ UNCHANGED sideVars
  /\ pc[p] \in {"checking", "markRead", "markWrite"}
  /\ syncError' = "Sync failed"
  /\ Finish(p)
  /\ quiet' = Calm
  /\ UNCHANGED <<storeVars, now, server, conflicts, timers>>

\* A step of pass p: one of its awaits resolves or rejects.
PassStep(p) ==
  \/ GetUnsynced(p)
  \/ \E ok \in BOOLEAN : Detect(p, ok)
  \/ PushFailed(p)
  \/ \E acked \in SUBSET Ids : PushAccepted(p, acked)
  \/ \E id \in Ids : MarkRead(p, id)
  \/ MarkWrite(p)
  \/ StorageError(p)

NextLive ==
  \/ Tick
  \/ \E a \in Amounts, adv \in BOOLEAN : AddItem(a, adv)
  \/ \E id \in Ids, a \in Amounts : EditItem(id, a)
  \/ \E id \in Ids : RemoveItem(id)
  \/ \E captured \in BOOLEAN, onLine \in BOOLEAN : TriggerSync(captured, onLine)
  \/ \E p \in Passes : GetUnsynced(p)
  \/ \E p \in Passes, ok \in BOOLEAN : Detect(p, ok)
  \/ \E p \in Passes : PushFailed(p)
  \/ \E p \in Passes, acked \in SUBSET Ids : PushAccepted(p, acked)
  \/ \E p \in Passes, id \in Ids : MarkRead(p, id)
  \/ \E p \in Passes : MarkWrite(p)
  \/ \E p \in Passes : StorageError(p)

\* Every await of a pass in flight settles eventually.
SpecLive == Init /\ [][NextLive]_vars /\ \A p \in Passes : WF_vars(PassStep(p))

\* ----- markItemsAsSynced called twice (SpecMark) ---------------------------

MaxLen == 2

Rows == [id : Ids, category : {"food"}, description : {"note"}, amount : Amounts,
         type : {"expense"}, date : {0}, synced : BOOLEAN,
         updatedAt : {0, TickMs}, createdAt : {0}, deleted : BOOLEAN]

Stores == {st \in [Ids -> Rows \cup {NoRow}] : \A i \in Ids : st[i] = NoRow \/ st[i].id = i}

IdLists == UNION {[1..n -> Ids] : n \in 0..MaxLen}

InitMark ==
  /\ store \in Stores
  /\ px \in IdLists
  /\ py = <<>>
  /\ nextId = MaxItems + 1
  /\ now = 0
  /\ server = [i \in Ids |-> NoRow]
  /\ syncInProgress = FALSE
  /\ isSyncing = FALSE
  /\ syncError = NoError
  /\ conflicts = {}
  /\ timers = 0
  /\ pc = [p \in Passes |-> "idle"]
  /\ unsyncedItems = [p \in Passes |-> {}]
  /\ syncedIds = [p \in Passes |-> {}]
  /\ toMark = [p \in Passes |-> {}]
  /\ item = [p \in Passes |-> NoRow]
  /\ quiet = [p \in Passes |-> TRUE]
  /\ InitView
  /\ InitOutbox

\* await markItemsAsSynced(px), with no other handler running in between.
CallMark ==
  /\ Len(py) < 2
  /\ store' = markItemsAsSynced(store, px)
  /\ py' = Append(py, store')
  /\ UNCHANGED <<px, nextId, now, server, hookVars, passVars, quiet, viewVars, outboxVars>>

NextMark == CallMark

SpecMark == InitMark /\ [][NextMark]_vars

\* ----- updateBudgetItem called once (SpecUpdate) ---------------------------

\* The updates a caller may pass: any part of a BudgetItem.
Updates ==
  {[amount |-> a] : a \in PureAmounts}
    \cup {[deleted |-> TRUE, synced |-> FALSE], [synced |-> TRUE]}
    \cup {[id |-> i] : i \in Ids}
    \cup {[createdAt |-> t] : t \in {0, TickMs}}
    \cup {[amount |-> a, createdAt |-> t, synced |-> TRUE] : a \in PureAmounts, t \in {0, TickMs}}

InitUpdate ==
  /\ store \in Stores
  /\ px \in [id : Ids, updates : Updates]
  /\ py = <<>>
  /\ nextId = MaxItems + 1
  /\ now \in {0, TickMs}
  /\ server = [i \in Ids |-> NoRow]
  /\ syncInProgress = FALSE
  /\ isSyncing = FALSE
  /\ syncError = NoError
  /\ conflicts = {}
  /\ timers = 0
  /\ pc = [p \in Passes |-> "idle"]
  /\ unsyncedItems = [p \in Passes |-> {}]
  /\ syncedIds = [p \in Passes |-> {}]
  /\ toMark = [p \in Passes |-> {}]
  /\ item = [p \in Passes |-> NoRow]
  /\ quiet = [p \in Passes |-> TRUE]
  /\ InitView
  /\ InitOutbox

\* await updateBudgetItem(px.id, px.updates); py takes what it returns (NoRow
\* for null).
CallUpdate ==
  /\ Len(py) = 0
  /\ store' = updateBudgetItem(store, px.id, px.updates, now)
  /\ py' = <<IF store[px.id] = NoRow THEN NoRow ELSE store'[px.id]>>
  /\ UNCHANGED <<px, nextId, now, server, hookVars, passVars, quiet, viewVars, outboxVars>>

NextUpdate == CallUpdate

SpecUpdate == InitUpdate /\ [][NextUpdate]_vars

\* ----- detectConflict and autoResolveConflict called once (SpecDetect) -----

\* Timestamps 0, 1, 1000, 1001 and 5000 ms: differences below, at and above
\* the tolerance.
PureTimes == {0, 1, TIME_TOLERANCE, TickMs, 5 * TIME_TOLERANCE}

DetectLocalItems ==
  [id : {1}, category : {"food"}, description : {"note"}, amount : PureAmounts,
   type : {"expense"}, date : {0}, synced : BOOLEAN,
   updatedAt : PureTimes, createdAt : {0}, deleted : BOOLEAN]

DetectServerItems ==
  [id : {1}, category : {"food"}, description : {"note"}, amount : PureAmounts,
   type : {"expense"}, date : {toISOString(0)},
   updatedAt : {toISOString(t) : t \in PureTimes}, createdAt : {toISOString(0)},
   deleted : BOOLEAN]

ConflictTypes == {"update", "delete_local", "delete_server", "both_modified"}

InitDetect ==
  /\ px \in [localItem : DetectLocalItems, serverItem : DetectServerItems]
  /\ py = <<>>
  /\ store = [i \in Ids |-> NoRow]
  /\ nextId = 1
  /\ now = 0
  /\ server = [i \in Ids |-> NoRow]
  /\ syncInProgress = FALSE
  /\ isSyncing = FALSE
  /\ syncError = NoError
  /\ conflicts = {}
  /\ timers = 0
  /\ pc = [p \in Passes |-> "idle"]
  /\ unsyncedItems = [p \in Passes |-> {}]
  /\ syncedIds = [p \in Passes |-> {}]
  /\ toMark = [p \in Passes |-> {}]
  /\ item = [p \in Passes |-> NoRow]
  /\ quiet = [p \in Passes |-> TRUE]
  /\ InitView
  /\ InitOutbox

\* detectConflict(px.localItem, px.serverItem)
CallDetect ==
  /\ Len(py) = 0
  /\ py' = <<[fn |-> "detectConflict", out |-> detectConflict(px.localItem, px.serverItem)]>>
  /\ UNCHANGED <<px, storeVars, now, server, hookVars, passVars, quiet, viewVars, outboxVars>>

\* autoResolveConflict of a conflict between px.localItem and px.serverItem
CallAutoResolve(type) ==
  /\ Len(py) = 0
  /\ LET conflict == [localItem |-> px.localItem, serverItem |-> px.serverItem,
                      conflictType |-> type]
     IN  py' = <<[fn |-> "autoResolveConflict", in |-> conflict,
                  out |-> autoResolveConflict(conflict)]>>
  /\ UNCHANGED <<px, storeVars, now, server, hookVars, passVars, quiet, viewVars, outboxVars>>

\* autoResolveAllConflicts: autoResolveConflict of the conflict detectConflict
\* reported for px.localItem and px.serverItem
CallAutoResolveDetected ==
  /\ Len(py) = 0
  /\ detectConflict(px.localItem, px.serverItem) # NoConflict
  /\ LET conflict == detectConflict(px.localItem, px.serverItem)
     IN  py' = <<[fn |-> "autoResolveAllConflicts", in |-> conflict,
                  out |-> autoResolveConflict(conflict)]>>
  /\ UNCHANGED <<px, storeVars, now, server, hookVars, passVars, quiet, viewVars, outboxVars>>

NextDetect ==
  \/ CallDetect
  \/ CallAutoResolveDetected
  \/ \E type \in ConflictTypes : CallAutoResolve(type)

SpecDetect == InitDetect /\ [][NextDetect]_vars

\* ----- mergeItems, serverItemToLocal, applyResolution called once (SpecMerge)

Categories == {"food", "rent"}
Descriptions == {"note", "memo"}
Types == {"income", "expense"}
Dates == {0, TickMs}

MergeLocalItems ==
  [id : {1}, category : Categories, description : Descriptions, amount : PureAmounts,
   type : Types, date : Dates, synced : BOOLEAN,
   updatedAt : {0, TickMs}, createdAt : {0}, deleted : BOOLEAN]

MergeServerItems ==
  [id : Ids, category : Categories, description : Descriptions, amount : PureAmounts,
   type : Types, date : {toISOString(t) : t \in Dates},
   updatedAt : {toISOString(0), toISOString(TickMs)}, createdAt : {toISOString(1)},
   deleted : BOOLEAN]

AllResolutions == Resolutions \cup {"pending"}

InitMerge ==
  /\ px \in [localItem : MergeLocalItems, serverItem : MergeServerItems]
  /\ py = <<>>
  /\ store = [i \in Ids |-> NoRow]
  /\ nextId = 1
  /\ now = 2 * TickMs
  /\ server = [i \in Ids |-> NoRow]
  /\ syncInProgress = FALSE
  /\ isSyncing = FALSE
  /\ syncError = NoError
  /\ conflicts = {}
  /\ timers = 0
  /\ pc = [p \in Passes |-> "idle"]
  /\ unsyncedItems = [p \in Passes |-> {}]
  /\ syncedIds = [p \in Passes |-> {}]
  /\ toMark = [p \in Passes |-> {}]
  /\ item = [p \in Passes |-> NoRow]
  /\ quiet = [p \in Passes |-> TRUE]
  /\ InitView
  /\ InitOutbox

\* mergeItems(px.localItem, px.serverItem)
CallMerge ==
  /\ Len(py) = 0
  /\ py' = <<[fn |-> "mergeItems", out |-> mergeItems(px.localItem, px.serverItem, now)]>>
  /\ UNCHANGED <<px, storeVars, now, server, hookVars, passVars, quiet, viewVars, outboxVars>>

\* serverItemToLocal(px.serverItem)
CallToLocal ==
  /\ Len(py) = 0
  /\ py' = <<[fn |-> "serverItemToLocal", out |-> serverItemToLocal(px.serverItem)]>>
  /\ UNCHANGED <<px, storeVars, now, server, hookVars, passVars, quiet, viewVars, outboxVars>>

\* applyResolution of a ResolvedConflict; premerged says whether it carries the
\* mergedItem the dialog computed (at time 0) or leaves it undefined.
CallApply(resolution, premerged) ==
  /\ Len(py) = 0
  /\ LET resolved == [localItem |-> px.localItem, serverItem |-> px.serverItem,
                      conflictType |-> "both_modified", resolution |-> resolution,
                      mergedItem |-> IF premerged
                                     THEN mergeItems(px.localItem, px.serverItem, 0)
                                     ELSE NoRow]
     IN  py' = <<[fn |-> "applyResolution", in |-> resolved,
                  out |-> applyResolution(resolved, now)]>>
  /\ UNCHANGED <<px, storeVars, now, server, hookVars, passVars, quiet, viewVars, outboxVars>>

NextMerge ==
  \/ CallMerge
  \/ CallToLocal
  \/ \E resolution \in AllResolutions, premerged \in BOOLEAN : CallApply(resolution, premerged)

SpecMerge == InitMerge /\ [][NextMerge]_vars

\* ----- useBudgetOffline: the list and the counter it keeps (SpecHook) ------

getAllBudgetItems(st) == {st[i] : i \in {j \in Ids : st[j] # NoRow /\ ~st[j].deleted}}

\* The tables a session can find at mount: ids handed out in order, and no row
\* both deleted and synced (markItemsAsSynced removes those).
HookStores ==
  {st \in Stores :
     /\ \A i \in Ids : st[i] # NoRow => ~(st[i].deleted /\ st[i].synced)
     /\ \A j, k \in Ids : (j < k /\ st[k] # NoRow) => st[j] # NoRow}

\* The state that refreshItems sets.
refreshItems(st) ==
  /\ stateItems = getAllBudgetItems(st)
  /\ unsyncedCount = Cardinality(getUnsyncedItems(st))

\* The hook after its mount effect ran refreshItems.
InitHook ==
  /\ store \in HookStores
  /\ nextId = 1 + Cardinality({i \in Ids : store[i] # NoRow})
  /\ now = 0
  /\ refreshItems(store)
  /\ px = <<>>
  /\ py = <<>>
  /\ server = [i \in Ids |-> NoRow]
  /\ syncInProgress = FALSE
  /\ isSyncing = FALSE
  /\ syncError = NoError
  /\ conflicts = {}
  /\ timers = 0
  /\ pc = [p \in Passes |-> "idle"]
  /\ unsyncedItems = [p \in Passes |-> {}]
  /\ syncedIds = [p \in Passes |-> {}]
  /\ toMark = [p \in Passes |-> {}]
  /\ item = [p \in Passes |-> NoRow]
  /\ quiet = [p \in Passes |-> TRUE]
  /\ InitOutbox

\* addItem: addBudgetItem, then the new row is put in front of the list and
\* the counter goes up by one.
addItem(amount, advance) ==
  /\ nextId <= MaxItems
  /\ advance => now < MaxTicks * TickMs
  /\ now' = IF advance THEN now + TickMs ELSE now
  /\ store' = addBudgetItem(store, nextId, NewItem(amount), now, now')
  /\ nextId' = nextId + 1
  /\ stateItems' = stateItems \cup {store'[nextId]}
  /\ unsyncedCount' = unsyncedCount + 1
  /\ UNCHANGED <<server, hookVars, passVars, quiet, pureVars, outboxVars>>

\* editItem: updateBudgetItem, then the listed row is replaced and the counter
\* goes up if the listed row was synced.
editItem(id, updates) ==
  /\ store' = updateBudgetItem(store, id, updates, now)
  /\ IF store[id] # NoRow
     THEN /\ stateItems' = {IF i.id = id THEN store'[id] ELSE i : i \in stateItems}
          /\ unsyncedCount' = unsyncedCount
               + (IF \E i \in stateItems : i.id = id /\ i.synced THEN 1 ELSE 0)
     ELSE UNCHANGED viewVars
  /\ UNCHANGED <<nextId, now, server, hookVars, passVars, quiet, pureVars, outboxVars>>

\* removeItem: looks the row up in the list, soft-deletes it in the table,
\* then drops it from the list and adds one to the counter.
removeItem(id) ==
  LET itemToDelete == {i \in stateItems : i.id = id}
      success == store[id] # NoRow
  IN  /\ store' = deleteBudgetItem(store, id, now)
      /\ IF success /\ itemToDelete # {}
         THEN /\ stateItems' = {i \in stateItems : i.id # id}
              /\ unsyncedCount' = unsyncedCount + 1
         ELSE UNCHANGED viewVars
      /\ UNCHANGED <<nextId, now, server, hookVars, passVars, quiet, pureVars, outboxVars>>

NextHook ==
  \/ Tick
  \/ \E a \in PureAmounts, adv \in BOOLEAN : addItem(a, adv)
  \/ \E id \in Ids, a \in PureAmounts : editItem(id, [amount |-> a])
  \/ \E id \in Ids : removeItem(id)

SpecHook == InitHook /\ [][NextHook]_vars

\* ----- the outbox and its replay (SpecOutbox) ------------------------------

MaxQueued == 3
MaxCalls == 3
MutationKeys == {"createBudget", "unknownKey"}

\* queueMutation: a row with a fresh id and the clock's reading.  The id is
\* the call's ordinal here (crypto.randomUUID carries no order in the code).
queueMutation(queue, n, mutationKey, t) ==
  queue \cup {[id |-> n, mutationKey |-> mutationKey, createdAt |-> t]}

\* The lists a select ordered by createdAt ascending can return: every row
\* once, no row before one with a smaller createdAt.
getQueuedMutations(queue) ==
  {q \in [1..Cardinality(queue) -> queue] :
     /\ \A i, j \in 1..Cardinality(queue) : i < j => q[i] # q[j]
     /\ \A i, j \in 1..Cardinality(queue) : i < j => q[i].createdAt <= q[j].createdAt}

removeMutationFromQueueClears(queue, id) == {}

removeMutationFromQueue(queue, id) == {m \in queue : m.id # id}

\* executeMutationHelper's switch: an unknown key throws before any request.
KnownKey(mutationKey) == mutationKey = "createBudget"

Replaying == {r \in Runs : replay[r].pc # "idle"}

\* syncNow up to its first await, called through a closure that captured
\* isSyncing = captured.  A refused call changes nothing.
syncNow(captured, onLine) ==
  /\ calls < MaxCalls
  /\ calls' = calls + 1
  /\ IF ~onLine \/ captured
     THEN UNCHANGED <<providerIsSyncing, replay>>
     ELSE /\ Replaying # Runs
          /\ LET r == CHOOSE q \in Runs \ Replaying : \A o \in Runs \ Replaying : q <= o
             IN  replay' = [o \in Runs |->
                              IF o = r THEN [NoReplay EXCEPT !.pc = "loading",
                                                             !.alone = Replaying = {}]
                              ELSE [replay[o] EXCEPT !.alone = replay[o].pc = "idle"]]
          /\ providerIsSyncing' = TRUE

\* useOfflineMutation stores a mutation made while offline.
QueueMutation(mutationKey) ==
  /\ queued < MaxQueued
  /\ queued' = queued + 1
  /\ mutationQueue' = queueMutation(mutationQueue, queued + 1, mutationKey, now)
  /\ UNCHANGED <<providerIsSyncing, closureIsSyncing, replay, calls>>
  /\ UNCHANGED <<storeVars, now, server, hookVars, passVars, quiet, pureVars, viewVars>>

\* The mount effect's initial check, the online event or a consumer of the
\* context calls the syncNow of the last committed render.
SyncNow(onLine) ==
  /\ syncNow(closureIsSyncing, onLine)
  /\ UNCHANGED <<mutationQueue, queued, closureIsSyncing>>
  /\ UNCHANGED <<storeVars, now, server, hookVars, passVars, quiet, pureVars, viewVars>>

\* The provider renders with the changed isSyncing: syncNow is made anew, the
\* effect registers the new handlers and makes its initial check.
Render(onLine) ==
  /\ closureIsSyncing # providerIsSyncing
  /\ closureIsSyncing' = providerIsSyncing
  /\ IF onLine
     THEN syncNow(providerIsSyncing, TRUE)
     ELSE UNCHANGED <<providerIsSyncing, replay, calls>>
  /\ UNCHANGED <<mutationQueue, queued>>
  /\ UNCHANGED <<storeVars, now, server, hookVars, passVars, quiet, pureVars, viewVars>>

\* The run's steps after the entry at replay[r].pos is done with: the next
\* entry, or the end of the loop and the finally block.
Advance(r, rec) ==
  IF rec.pos = Len(rec.queue)
  THEN /\ replay' = [replay EXCEPT ![r] = NoReplay]
       /\ providerIsSyncing' = FALSE
  ELSE /\ replay' = [replay EXCEPT ![r] = [rec EXCEPT !.pc = "executing", !.pos = rec.pos + 1]]
       /\ UNCHANGED providerIsSyncing

\* await getQueuedMutations()
LoadQueue(r) ==
  /\ replay[r].pc = "loading"
  /\ \E q \in getQueuedMutations(mutationQueue) :
       IF Len(q) = 0
       THEN /\ replay' = [replay EXCEPT ![r] = NoReplay]
            /\ providerIsSyncing' = FALSE
       ELSE /\ replay' = [replay EXCEPT ![r] = [@ EXCEPT !.pc = "executing", !.queue = q, !.pos = 1]]
            /\ UNCHANGED providerIsSyncing
  /\ UNCHANGED <<mutationQueue, queued, closureIsSyncing, calls>>
  /\ UNCHANGED <<storeVars, now, server, hookVars, passVars, quiet, pureVars, viewVars>>

\* await executeMutationHelper(item.mutationKey, item.variables): the request
\* succeeds (ok) or the helper throws.
ExecuteMutation(r, ok) ==
  /\ replay[r].pc = "executing"
  /\ LET entry == replay[r].queue[replay[r].pos]
     IN  /\ ok => KnownKey(entry.mutationKey)
         /\ IF ok
            THEN /\ replay' = [replay EXCEPT ![r] = [@ EXCEPT !.pc = "removing"]]
                 /\ UNCHANGED providerIsSyncing
            ELSE Advance(r, [replay[r] EXCEPT !.failed = @ \cup {entry.id}])
  /\ UNCHANGED <<mutationQueue, queued, closureIsSyncing, calls>>
  /\ UNCHANGED <<storeVars, now, server, hookVars, passVars, quiet, pureVars, viewVars>>

\* await removeMutationFromQueue(item.id): the delete commits (ok) or throws.
RemoveMutation(r, ok) ==
  /\ replay[r].pc = "removing"
  /\ LET entry == replay[r].queue[replay[r].pos]
     IN  IF ok
         THEN /\ mutationQueue' = removeMutationFromQueue(mutationQueue, entry.id)
              /\ Advance(r, replay[r])
         ELSE /\ UNCHANGED mutationQueue
              /\ Advance(r, [replay[r] EXCEPT !.failed = @ \cup {entry.id}])
  /\ UNCHANGED <<queued, closureIsSyncing, calls>>
  /\ UNCHANGED <<storeVars, now, server, hookVars, passVars, quiet, pureVars, viewVars>>

NextOutbox ==
  \/ Tick
  \/ \E key \in MutationKeys : QueueMutation(key)
  \/ \E onLine \in BOOLEAN : SyncNow(onLine)
  \/ \E onLine \in BOOLEAN : Render(onLine)
  \/ \E r \in Runs : LoadQueue(r)
  \/ \E r \in Runs, ok \in BOOLEAN : ExecuteMutation(r, ok)
  \/ \E r \in Runs, ok \in BOOLEAN : RemoveMutation(r, ok)

SpecOutbox == Init /\ [][NextOutbox]_vars

\* ----- claims -------------------------------------------------------------

Version(row) == [amount |-> row.amount, deleted |-> row.deleted, updatedAt |-> row.updatedAt]
Sent(p, id) == CHOOSE r \in unsyncedItems[p] : r.id = id

\* C1: at most one sync pass is running at any time, whatever calls
\* triggerSync (online event, timer, button, the re-trigger of resolveConflicts).
C1_AtMostOnePass == Cardinality(Running) <= 1

\* C2: a record edited while a pass that read its earlier version is in flight
\* is still unsynced when that pass has marked it: markItemsAsSynced leaves a
\* record synced only if its current version is the one the pass sent.
C2_SyncedOnlyIfSentVersion ==
  [][\A p \in Passes :
       (pc[p] = "markWrite" /\ pc'[p] # "markWrite"
          /\ store'[item[p].id] # NoRow /\ store'[item[p].id].synced)
       => Version(store'[item[p].id]) = Version(Sent(p, item[p].id))]_vars

\* C3: a row is physically removed only once the server holds the deletion of
\* that record.
C3_RemovedOnlyAfterServerDelete ==
  [][\A id \in Ids :
       (store[id] # NoRow /\ store'[id] = NoRow)
       => (server'[id] # NoRow /\ server'[id].deleted)]_vars

\* C4: when the server's copies show a conflict for at least one candidate, the
\* pass returns without posting anything, the store is unchanged, and the
\* surfaced conflicts are exactly those detectConflict reports.
HasConflict(p) ==
  \E i \in unsyncedItems[p] :
     server[i.id] # NoRow /\ detectConflict(i, server[i.id]) # NoConflict

C4_ConflictStopsPass ==
  [][\A p \in Passes :
       (Detect(p, TRUE) /\ HasConflict(p))
       => /\ pc'[p] = "idle"
          /\ store' = store
          /\ server' = server
          /\ conflicts' = {detectConflict(i, server[i.id]) :
                             i \in {j \in unsyncedItems[p] :
                                      /\ server[j.id] # NoRow
                                      /\ detectConflict(j, server[j.id]) # NoConflict}}]_vars

C4_Witness ==
  /\ Running = {}
  /\ conflicts # {}
  /\ \E id \in Ids : /\ store[id] # NoRow /\ ~store[id].synced
                     /\ server[id] = NoRow
                     /\ \A c \in conflicts : c.localItem.id # id
  /\ \A c \in conflicts : store[c.localItem.id] = c.localItem

\* C5: a failed push surfaces its error and leaves the store as it is: no row
\* written or removed, and, when nothing else wrote the store during the pass,
\* every candidate still stored as it was read, unsynced.
C5_PushFailureKeepsStore ==
  [][\A p \in Passes :
       PushFailed(p)
       => /\ store' = store
          /\ syncError' # NoError
          /\ pc'[p] = "idle"
          /\ quiet[p] => \A c \in unsyncedItems[p] : store'[c.id] = c /\ ~c.synced]_vars

C5_Witness ==
  /\ Running = {}
  /\ syncError # NoError
  /\ \E id \in Ids : store[id] # NoRow /\ ~store[id].synced /\ server[id] = NoRow

\* C6: once resolveConflicts has applied its resolutions, every resolved row it
\* kept is free of conflict with the server's unchanged copy, which is what the
\* pass it re-triggers compares it with.
C6_ResolvedItemsPushCleanly ==
  [][(conflicts # {} /\ conflicts' = {} /\ timers' = timers + 1)
       => \A c \in conflicts :
            (/\ store[c.localItem.id] = c.localItem
             /\ server[c.localItem.id] = c.serverItem
             /\ store'[c.localItem.id] # NoRow)
            => detectConflict(store'[c.localItem.id], server[c.localItem.id]) = NoConflict]_vars

\* C7: unsynced live rows the server has no copy of raise no conflict and go
\* out in one request; when the server acknowledges them all and nothing else
\* writes the store meanwhile, the pass ends with each of them stored synced.
NoCounterpart(p) ==
  \A c \in unsyncedItems[p] : ~c.deleted /\ server[c.id] = NoRow

MarkedAll(p) ==
  /\ pc[p] \in {"markRead", "markWrite"} /\ pc'[p] = "idle"
  /\ quiet[p]
  /\ syncedIds[p] = IdsOf(unsyncedItems[p])

C7_FirstSyncMarksAll ==
  [][\A p \in Passes :
       /\ (pc[p] = "syncing" /\ pc'[p] # "syncing" /\ NoCounterpart(p))
          => /\ pc'[p] = "pushing"
             /\ unsyncedItems'[p] = unsyncedItems[p]
             /\ conflicts' = conflicts
       /\ (MarkedAll(p) /\ \A c \in unsyncedItems[p] : ~c.deleted)
          => /\ \A c \in unsyncedItems[p] : store'[c.id] = [c EXCEPT !.synced = TRUE]
             /\ getUnsyncedItems(store') \cap unsyncedItems[p] = {}]_vars

C7_Witness ==
  \E p \in Passes :
    /\ pc[p] = "markWrite" /\ quiet[p]
    /\ Cardinality(unsyncedItems[p]) = MaxItems
    /\ syncedIds[p] = IdsOf(unsyncedItems[p])
    /\ toMark[p] = {item[p].id}
    /\ \A c \in unsyncedItems[p] :
         /\ ~c.deleted
         /\ server[c.id] = ToWire(c)
         /\ c.id # item[p].id => store[c.id] = [c EXCEPT !.synced = TRUE]

\* C8: when a pass the server acknowledged a soft-deleted row in has visited
\* that row, no row of that id is left (and none is left when the pass ends, if
\* nothing else wrote the store meanwhile).
C8_AckedDeleteRemovesRow ==
  [][\A p \in Passes :
       /\ (pc[p] = "markWrite" /\ pc'[p] # "markWrite" /\ item[p].deleted)
          => store'[item[p].id] = NoRow
       /\ (pc[p] \in {"markRead", "markWrite"} /\ pc'[p] = "idle" /\ quiet[p])
          => \A c \in unsyncedItems[p] :
                (c.deleted /\ c.id \in syncedIds[p]) => store'[c.id] = NoRow]_vars

C8_Witness ==
  \E p \in Passes :
    /\ pc[p] = "markRead" /\ quiet[p]
    /\ \E c \in unsyncedItems[p] :
         c.deleted /\ c.id \in syncedIds[p] \ toMark[p] /\ store[c.id] = NoRow

\* C9: markItemsAsSynced(ids) called twice in a row leaves the store as one
\* call does.
C9_MarkIdempotent == Len(py) = 2 => py[2] = py[1]

C9_Witness ==
  /\ Len(py) = 2
  /\ \E i \in 1..Len(px) : py[1][px[i]] # NoRow /\ py[1][px[i]].synced
  /\ \E i \in Ids : py[1][i] = NoRow

\* C10: no step other than markItemsAsSynced's write turns a stored row's
\* synced flag from false to true.
C10_OnlyMarkSetsSynced ==
  [][\A id \in Ids :
       (store[id] # NoRow /\ ~store[id].synced /\ store'[id] # NoRow /\ store'[id].synced)
       => \E p \in Passes : pc[p] = "markWrite" /\ pc'[p] # "markWrite" /\ item[p].id = id]_vars

C10_Witness ==
  /\ timers > 0
  /\ \E id \in Ids : /\ store[id] # NoRow /\ ~store[id].synced
                     /\ server[id] # NoRow /\ ~server[id].deleted
                     /\ store[id].deleted = server[id].deleted
                     /\ store[id].updatedAt > DateParse(server[id].updatedAt)

\* C11: addBudgetItem stores a record under an id no record had, unsynced, not
\* deleted, with createdAt equal to updatedAt, and leaves the other records
\* as they were.
C11_AddStoresFreshRecord ==
  [][nextId' = nextId + 1
       => /\ store[nextId] = NoRow
          /\ store'[nextId].id = nextId
          /\ ~store'[nextId].synced /\ ~store'[nextId].deleted
          /\ store'[nextId].createdAt = store'[nextId].updatedAt
          /\ \A j \in Ids \ {nextId} : store'[j] = store[j]]_vars

\* C13: every stored record has createdAt <= updatedAt.
C13_CreatedBeforeUpdated ==
  \A id \in Ids : store[id] # NoRow => store[id].createdAt <= store[id].updatedAt

\* C12: updateBudgetItem on an existing record stores the merged fields
\* unsynced with updatedAt refreshed and keeps the record's id and createdAt,
\* whatever the updates carry; on an absent id it returns null and leaves the
\* store as it is.
C12_UpdateKeepsIdAndCreatedAt ==
  [][py' # py
       => IF store[px.id] = NoRow
          THEN store' = store /\ py'[1] = NoRow
          ELSE /\ py'[1] = store'[px.id]
               /\ store'[px.id].id = px.id
               /\ store'[px.id].createdAt = store[px.id].createdAt
               /\ ~store'[px.id].synced
               /\ store'[px.id].updatedAt = now
               /\ \A f \in DOMAIN px.updates \ {"id", "createdAt", "synced", "updatedAt"} :
                    store'[px.id][f] = px.updates[f]
               /\ \A j \in Ids \ {px.id} : store'[j] = store[j]]_vars

\* Timestamps of the arguments of SpecDetect, and the result of a call.
ArgL == px.localItem.updatedAt
ArgS == px.serverItem.updatedAt.iso
Detected == Len(py) = 1 /\ py[1].fn = "detectConflict"
AutoResolved == Len(py) = 1 /\ py[1].fn = "autoResolveConflict"
ConflictOf(type) ==
  [localItem |-> px.localItem, serverItem |-> px.serverItem, conflictType |-> type]

\* C14: when exactly one side is deleted, detectConflict returns delete_local
\* iff local is deleted and S > L, delete_server iff the server's copy is
\* deleted and L > S, and null otherwise (equal timestamps included).
C14_DeleteConflictIffOtherSideNewer ==
  Detected =>
    /\ (px.localItem.deleted /\ ~px.serverItem.deleted)
         => py[1].out = IF ArgS > ArgL THEN ConflictOf("delete_local") ELSE NoConflict
    /\ (~px.localItem.deleted /\ px.serverItem.deleted)
         => py[1].out = IF ArgL > ArgS THEN ConflictOf("delete_server") ELSE NoConflict

C14_Witness ==
  /\ Detected
  /\ ~px.localItem.deleted /\ px.serverItem.deleted
  /\ ArgL = ArgS
  /\ py[1].out = NoConflict

\* C15: when both sides are alive or both deleted, detectConflict returns
\* both_modified iff |L - S| > 1000 and null otherwise, whatever the amounts.
C15_BothModifiedIffBeyondTolerance ==
  (Detected /\ px.localItem.deleted = px.serverItem.deleted)
    => py[1].out = IF ArgL - ArgS > 1000 \/ ArgS - ArgL > 1000
                   THEN ConflictOf("both_modified") ELSE NoConflict

C15_Witness ==
  /\ Detected
  /\ ~px.localItem.deleted /\ ~px.serverItem.deleted
  /\ ArgL - ArgS = 1000
  /\ px.localItem.amount # px.serverItem.amount
  /\ py[1].out = NoConflict

\* C16 as stated: for a locally deleted item whose server copy is alive,
\* detectConflict returns delete_local when the local deletion is newer than
\* the server's modification and null when it is older.
C16_NewerLocalDeleteConflicts ==
  (Detected /\ px.localItem.deleted /\ ~px.serverItem.deleted)
    => /\ ArgL > ArgS => py[1].out = ConflictOf("delete_local")
       /\ ArgL < ArgS => py[1].out = NoConflict

\* C16 as the code has it: for a locally deleted item whose server copy is
\* alive, detectConflict returns null when the local deletion is newer than
\* the server's modification and delete_local when it is older.
C16_NewerLocalDeleteWins ==
  (Detected /\ px.localItem.deleted /\ ~px.serverItem.deleted)
    => /\ ArgL > ArgS => py[1].out = NoConflict
       /\ ArgL < ArgS => py[1].out.conflictType = "delete_local"

C16_Witness ==
  /\ Detected
  /\ px.localItem.deleted /\ ~px.serverItem.deleted
  /\ ArgL = 5 * TIME_TOLERANCE /\ ArgS = 0
  /\ py[1].out = NoConflict

\* C17: autoResolveConflict answers keep_local iff L >= S and keep_server iff
\* L < S, nothing else, and hands the conflict's three fields back unchanged.
C17_AutoResolveLastWriteWins ==
  AutoResolved =>
    /\ py[1].out.resolution = (IF ArgL >= ArgS THEN "keep_local" ELSE "keep_server")
    /\ py[1].out.localItem = py[1].in.localItem
    /\ py[1].out.serverItem = py[1].in.serverItem
    /\ py[1].out.conflictType = py[1].in.conflictType
    /\ DOMAIN py[1].out = {"localItem", "serverItem", "conflictType", "resolution"}

C17_Witness ==
  /\ AutoResolved
  /\ py[1].in.conflictType = "both_modified"
  /\ ~px.localItem.deleted /\ ~px.serverItem.deleted
  /\ ArgL = 0 /\ ArgS = 5 * TIME_TOLERANCE
  /\ px.localItem.amount # px.serverItem.amount
  /\ py[1].out.resolution = "keep_server"

\* The results of SpecMerge's calls, and the payload of a row in either shape.
Merged == Len(py) = 1 /\ py[1].fn = "mergeItems"
Converted == Len(py) = 1 /\ py[1].fn = "serverItemToLocal"
Applied == Len(py) = 1 /\ py[1].fn = "applyResolution"
Payload(r) == <<r.category, r.description, r.amount, r.type, r.date>>
ServerPayload(r) == <<r.category, r.description, r.amount, r.type, r.date.iso>>

C19_ApplyResolutionRealizesChoice ==
  Applied =>
    LET in == py[1].in
        out == py[1].out
    IN  /\ in.resolution = "keep_local" => out = [in.localItem EXCEPT !.synced = FALSE]
        /\ in.resolution = "keep_server"
             => /\ out.id = in.serverItem.id
                /\ Payload(out) = ServerPayload(in.serverItem)
                /\ out.synced
                /\ out.updatedAt = in.serverItem.updatedAt.iso
                /\ out.createdAt = in.serverItem.createdAt.iso
                /\ out.deleted = in.serverItem.deleted
        /\ in.resolution = "merge"
             => out = IF in.mergedItem # NoRow THEN in.mergedItem
                      ELSE mergeItems(in.localItem, in.serverItem, now)
        /\ in.resolution = "pending" => out = in.localItem

C19_Witness ==
  /\ Applied
  /\ py[1].in.resolution = "pending"
  /\ px.localItem.synced
  /\ py[1].out = px.localItem

\* C20: serverItemToLocal keeps the server item's amount, category and type,
\* and mergeItems returns the amount, category and type of the side it picked.
C20_ConversionsKeepAmountCategoryType ==
  LET Kept(r) == <<r.amount, r.category, r.type>>
  IN  /\ Converted => Kept(py[1].out) = Kept(px.serverItem)
      /\ Merged => \/ ArgL >= ArgS /\ Kept(py[1].out) = Kept(px.localItem)
                   \/ ArgL < ArgS /\ Kept(py[1].out) = Kept(px.serverItem)

C20_Witness ==
  /\ Converted
  /\ px.serverItem.amount = MaxAmount
  /\ px.serverItem.category = "rent" /\ px.serverItem.type = "income"
  /\ py[1].out.amount = MaxAmount
  /\ py[1].out.category = "rent" /\ py[1].out.type = "income"

\* C23: when the fetch of the server's copies fails, the pass reports no
\* conflict and posts every unsynced candidate.
C23_FailedFetchPushesAll ==
  [][\A p \in Passes :
       Detect(p, FALSE)
       => /\ pc'[p] = "pushing"
          /\ unsyncedItems'[p] = unsyncedItems[p]
          /\ conflicts' = conflicts]_vars

C23_Witness ==
  \E p \in Passes :
    /\ pc[p] = "pushing" /\ quiet[p]
    /\ conflicts = {}
    /\ \E c \in unsyncedItems[p] :
         /\ server[c.id] # NoRow
         /\ detectConflict(c, server[c.id]) # NoConflict
         /\ c.updatedAt > DateParse(server[c.id].updatedAt)

C25_ConflictingItemNotPushed ==
  [][\A p \in Passes :
       (pc[p] = "syncing" /\ pc'[p] = "pushing")
       => \A c \in conflicts :
            (store[c.localItem.id] = c.localItem /\ server[c.localItem.id] = c.serverItem)
            => c.localItem.id \notin IdsOf(unsyncedItems'[p])]_vars

\* C29: the write of markItemsAsSynced changes nothing of a surviving record
\* but its synced flag, also when the record was edited after the select.
C29_MarkWritesOnlySyncedFlag ==
  [][\A p \in Passes :
       (pc[p] = "markWrite" /\ pc'[p] # "markWrite" /\ store'[item[p].id] # NoRow)
       => /\ store[item[p].id] # NoRow
          /\ store'[item[p].id] = [store[item[p].id] EXCEPT !.synced = TRUE]]_vars

\* C30: of the conflicts detectConflict produces, autoResolveConflict resolves
\* delete_local to keep_server, delete_server to keep_local, and both_modified
\* to the side whose updatedAt is later.
C30_AutoResolveNeverKeepsDeletingSide ==
  (Len(py) = 1 /\ py[1].fn = "autoResolveAllConflicts")
    => /\ py[1].in.conflictType = "delete_local" => py[1].out.resolution = "keep_server"
       /\ py[1].in.conflictType = "delete_server" => py[1].out.resolution = "keep_local"
       /\ py[1].in.conflictType = "both_modified"
            => /\ ArgL # ArgS
               /\ py[1].out.resolution = (IF ArgL > ArgS THEN "keep_local" ELSE "keep_server")

C30_Witness ==
  /\ Len(py) = 1 /\ py[1].fn = "autoResolveAllConflicts"
  /\ px.localItem.deleted /\ ~px.serverItem.deleted
  /\ py[1].in.conflictType = "delete_local"
  /\ py[1].out.resolution = "keep_server"

C27_CountMatchesUnsyncedRows == unsyncedCount = Cardinality(getUnsyncedItems(store))

\* C21: the list a replay works through holds the outbox entries in the order
\* in which queueMutation stored them, also for two entries stored within the
\* same clock tick.
C21_ReplayInEnqueueOrder ==
  \A r \in Runs : \A i, j \in 1..Len(replay[r].queue) :
     i < j => replay[r].queue[i].id < replay[r].queue[j].id

\* C22: an entry whose operation fails (an unknown key among them) stays in
\* the outbox and the loop goes on to the next entry; an entry leaves the
\* outbox only in the remove step that follows its own operation's success;
\* and when a replay that ran alone ends, the entries of its list that are
\* still in the outbox, unchanged, are exactly those it counted as failed.
C22_FailedEntriesStay ==
  [][/\ \A r \in Runs :
          (replay[r].pc = "executing"
             /\ (replay'[r].pc = "idle" \/ replay'[r].pos # replay[r].pos))
          => /\ mutationQueue' = mutationQueue
             /\ replay[r].pos < Len(replay[r].queue)
                  => /\ replay'[r].pc = "executing"
                     /\ replay'[r].queue = replay[r].queue
                     /\ replay'[r].pos = replay[r].pos + 1
     /\ \A m \in mutationQueue \ mutationQueue' :
          /\ m.mutationKey # "unknownKey"
          /\ \E r \in Runs : /\ replay[r].pc = "removing"
                              /\ replay[r].queue[replay[r].pos] = m
     /\ \A r \in Runs :
          (replay[r].pc # "idle" /\ replay'[r].pc = "idle" /\ replay[r].alone
             /\ Len(replay[r].queue) > 0)
          => LET last == replay[r].queue[Len(replay[r].queue)]
                 failed == replay[r].failed
                             \cup (IF last \in mutationQueue' THEN {last.id} ELSE {})
             IN  /\ replay[r].pc = "executing" => last \in mutationQueue'
                 /\ \A i \in 1..Len(replay[r].queue) :
                      replay[r].queue[i] \in mutationQueue'
                        <=> replay[r].queue[i].id \in failed]_vars

C22_Witness ==
  \E r \in Runs :
     /\ replay[r].alone
     /\ replay[r].pc = "removing"
     /\ replay[r].pos = 2
     /\ replay[r].queue[1].mutationKey = "unknownKey"
     /\ replay[r].failed = {replay[r].queue[1].id}
     /\ replay[r].queue[1] \in mutationQueue

\* C28: the replay loop never runs twice at the same time: a syncNow called
\* while an earlier call has not finished starts nothing.
C28_OneReplayAtATime == Cardinality(Replaying) <= 1

====
